---- MODULE Spec2Model ----
(***************************************************************************)
(* A state-machine model of OFS_CODE.py: the accident-resource allocation  *)
(* script.  The script is one sequential pipeline                          *)
(*     read_csv -> schema check -> Weighted_Severity -> LpProblem /        *)
(*     LpVariable -> objective and constraints -> solve -> result columns  *)
(*     -> sort and to_csv                                                  *)
(* and every stage is one action below; pc is the position in the script.  *)
(*                                                                         *)
(* Numbers.  Integer columns are TLA+ integers.  Under Spec, which is      *)
(* about which rows and which integer allocations come out, the float      *)
(* columns are exact rationals [nan, num, den] in lowest terms (NaN is the *)
(* result of 0/0).  Under SpecFloat, which is about the values of the      *)
(* float columns, they are IEEE 754 binary64 numbers, rounded as numpy     *)
(* rounds them.  The row index of the data frame (RangeIndex 0..n-1) is    *)
(* modelled as 1..n.                                                       *)
(*                                                                         *)
(* The solver.  PULP_CBC_CMD is an external program.  It is modelled by    *)
(* its contract: status Optimal comes with variable values that satisfy    *)
(* every constraint of the model that was built (any such assignment may   *)
(* be returned: an over-approximation of "an optimal one"), status         *)
(* Infeasible when there is none.  The non-negative integers a variable    *)
(* may take are sampled at the values of Grid.                             *)
(***************************************************************************)
EXTENDS Integers, Sequences, FiniteSets, TLC

VARIABLES pc, error, df, model, x, z, top5, jaipur_idx, status, csv

vars == <<pc, error, df, model, x, z, top5, jaipur_idx, status, csv>>

(***************************************************************************)
(* Bounds of the model.                                                    *)
(***************************************************************************)
\* rows of the input table
NumDistricts == 9

(***************************************************************************)
(* Policy parameters the script names (the others are literals in the      *)
(* constraint lines and appear as literals in the operators below).        *)
(***************************************************************************)
cost_x == 5
cost_z == 2
budget == 1800
X_max == 250
Z_max == 350
District_Limit == 30

\* a variable's varValue is <<>> (Python's None) or <<n>>
None == <<>>

(***************************************************************************)
(* Floats as exact rationals.                                              *)
(***************************************************************************)
RECURSIVE GCD(_, _)
GCD(a, b) == IF b = 0 THEN a ELSE GCD(b, a % b)

NaN == [nan |-> TRUE, num |-> 0, den |-> 1]

\* n/d for integers n >= 0, d >= 0: 0/0 is NaN, n/0 is inf (den = 0)
Frac(n, d) ==
  IF d = 0
    THEN IF n = 0 THEN NaN ELSE [nan |-> FALSE, num |-> 1, den |-> 0]
    ELSE LET g == GCD(n, d) IN [nan |-> FALSE, num |-> n \div g, den |-> d \div g]

IsNaN(a) == a.nan

FMul(a, b) ==
  IF a.nan \/ b.nan THEN NaN
  ELSE IF (a.den = 0 /\ b.num = 0) \/ (b.den = 0 /\ a.num = 0) THEN NaN
  ELSE Frac(a.num * b.num, a.den * b.den)

FAdd(a, b) ==
  IF a.nan \/ b.nan THEN NaN
  ELSE IF a.den = 0 \/ b.den = 0 THEN [nan |-> FALSE, num |-> 1, den |-> 0]
  ELSE Frac(a.num * b.den + b.num * a.den, a.den * b.den)

FDiv(a, b) ==
  IF a.nan \/ b.nan THEN NaN
  ELSE IF a.den = 0 /\ b.den = 0 THEN NaN
  ELSE Frac(a.num * b.den, a.den * b.num)

\* a < b; every comparison with NaN is false
FLess(a, b) == ~a.nan /\ ~b.nan /\ a.num * b.den < b.num * a.den

\* a column entry as a float: None (no value) becomes NaN in arithmetic
ToFloat(v) == IF v = None THEN NaN ELSE Frac(v[1], 1)

Rows(d) == 1..Len(d["Killed"])

(***************************************************************************)
(* Series.max(): the largest non-NaN entry, NaN when there is none.        *)
(***************************************************************************)
IntMax(col) ==
  CHOOSE m \in {col[i] : i \in DOMAIN col} : \A i \in DOMAIN col : col[i] <= m

FloatMax(col) ==
  LET S == {i \in DOMAIN col : ~IsNaN(col[i])}
  IN IF S = {} THEN NaN
     ELSE col[CHOOSE i \in S : \A j \in S : ~FLess(col[i], col[j])]

(***************************************************************************)
(* DataFrame.sort_values(by=col, ascending=False), kind='quicksort' (the   *)
(* default, which is not a stable sort): rows in descending order, rows    *)
(* with equal keys in an order the sort does not fix, NaN rows last in     *)
(* index order.  The result is the sequence of classes of equal keys.      *)
(***************************************************************************)
RECURSIVE DescendingClasses(_, _)
DescendingClasses(col, S) ==
  IF S = {} THEN <<>>
  ELSE LET top == {i \in S : \A j \in S : ~FLess(col[i], col[j])}
       IN <<top>> \o DescendingClasses(col, S \ top)

RECURSIVE IndexOrder(_, _)
IndexOrder(S, n) ==
  IF n = 0 THEN <<>>
  ELSE IndexOrder(S, n - 1) \o (IF n \in S THEN <<{n}>> ELSE <<>>)

sort_values(col) ==
  LET nans == {i \in DOMAIN col : IsNaN(col[i])}
  IN DescendingClasses(col, DOMAIN col \ nans) \o IndexOrder(nans, Len(col))

\* .head(k).index.tolist() of a sorted frame, as the set of its entries:
\* every set the first k rows can be, given that ties come in any order
RECURSIVE head(_, _)
head(classes, k) ==
  IF k = 0 \/ classes = <<>> THEN {{}}
  ELSE LET c == Head(classes)
       IN IF Cardinality(c) <= k
            THEN {c \cup h : h \in head(Tail(classes), k - Cardinality(c))}
            ELSE {h \in SUBSET c : Cardinality(h) = k}

(***************************************************************************)
(* The input tables.                                                       *)
(***************************************************************************)
DistrictNames ==
  <<"Ajmer", "Alwar", "Banswara", "Baran", "Barmer", "Bharatpur", "Bhilwara",
    "Bikaner", "Bundi", "Chittorgarh", "Churu", "Dausa">>

\* no tie, or the rows of ranks 5 and 6 by severity have equal counts
Ties == {0, 5}

\* the counts of row i: the rows are in ascending or in descending order of
\* counts 0..n-1, and the row of rank tie+1 repeats the counts of rank tie
Level(order, tie, i) ==
  LET base == IF order = "descending" THEN NumDistricts - i ELSE i - 1
      rank == NumDistricts - base
  IN IF tie > 0 /\ rank = tie + 1 THEN base + 1 ELSE base

Table(order, tie, zero, jaipur, hasDistrict) ==
  LET n == NumDistricts
      counts ==
        [c \in {"Killed", "Injured", "Accidents"} |->
           [i \in 1..n |->
              IF c = zero THEN 0
              ELSE Level(order, tie, i) *
                   (CASE c = "Killed" -> 1 [] c = "Injured" -> 2 [] OTHER -> 3)]]
      names == [i \in 1..n |-> IF i = jaipur THEN "Jaipur" ELSE DistrictNames[i]]
  IN IF hasDistrict THEN counts @@ ("District" :> names) ELSE counts

InputTables ==
  {Table(o, t, zc, j, h) :
     o \in {"ascending", "descending"}, t \in Ties,
     zc \in {"none", "Killed", "Injured", "Accidents"},
     j \in 0..NumDistricts, h \in BOOLEAN}

(***************************************************************************)
(* Line 7: the table is read.                                              *)
(***************************************************************************)
Init ==
  /\ pc = "check"
  /\ error = ""
  /\ df \in InputTables
  /\ model = [name |-> "", objective |-> <<>>, constraints |-> <<>>]
  /\ x = <<>>
  /\ z = <<>>
  /\ top5 = {}
  /\ jaipur_idx = 0
  /\ status = ""
  /\ csv = [columns |-> <<>>, rows |-> <<>>]

Raise(e) == pc' = "failed" /\ error' = e

(***************************************************************************)
(* Lines 10-11.                                                            *)
(***************************************************************************)
CheckSchema ==
  /\ pc = "check"
  /\ IF "District" \notin DOMAIN df
       THEN Raise("ValueError")
       ELSE pc' = "score" /\ error' = error
  /\ UNCHANGED <<df, model, x, z, top5, jaipur_idx, status, csv>>

(***************************************************************************)
(* Lines 14-20: Weighted_Severity and its two copies a and c.              *)
(***************************************************************************)
Weighted_Severity(d) ==
  LET K == IntMax(d["Killed"])
      J == IntMax(d["Injured"])
      A == IntMax(d["Accidents"])
  IN [i \in Rows(d) |->
        FAdd(FAdd(FMul(Frac(5, 10), Frac(d["Killed"][i], K)),
                  FMul(Frac(3, 10), Frac(d["Injured"][i], J))),
             FMul(Frac(2, 10), Frac(d["Accidents"][i], A)))]

Score ==
  /\ pc = "score"
  /\ LET ws == Weighted_Severity(df)
     IN df' = df @@ ("Weighted_Severity" :> ws) @@ ("a" :> ws) @@ ("c" :> ws)
  /\ pc' = "declare"
  /\ UNCHANGED <<error, model, x, z, top5, jaipur_idx, status, csv>>

(***************************************************************************)
(* Lines 23-27: the problem and its decision variables (lowBound=0,        *)
(* cat=LpInteger, no value yet).                                           *)
(***************************************************************************)
DeclareModel ==
  /\ pc = "declare"
  /\ model' = [name |-> "Rajasthan_Accident_Resource_Optimization",
               objective |-> <<>>, constraints |-> <<>>]
  /\ x' = [i \in Rows(df) |-> None]
  /\ z' = [i \in Rows(df) |-> None]
  /\ pc' = "constrain"
  /\ UNCHANGED <<error, df, top5, jaipur_idx, status, csv>>

(***************************************************************************)
(* Linear expressions: a sequence of <<variable, coefficient>>, a variable *)
(* being <<"Police", i>> or <<"Awareness", i>>.                            *)
(***************************************************************************)
\* lpSum(cx * x[i] + cz * z[i] for i in df.index)
SumAll(n, cx, cz) ==
  [k \in 1..(2 * n) |->
     LET i == (k + 1) \div 2
     IN IF k % 2 = 1 THEN <<<<"Police", i>>, cx>> ELSE <<<<"Awareness", i>>, cz>>]

RECURSIVE Ascending(_)
Ascending(S) ==
  IF S = {} THEN <<>>
  ELSE LET m == CHOOSE a \in S : \A b \in S : a <= b
       IN <<m>> \o Ascending(S \ {m})

RECURSIVE Concat(_)
Concat(ss) == IF ss = <<>> THEN <<>> ELSE Head(ss) \o Concat(Tail(ss))

Constraint(name, terms, sense, rhs) ==
  [name |-> name, terms |-> terms, sense |-> sense, rhs |-> rhs]

\* line 40
Objective(d) ==
  [k \in 1..(2 * Len(d["a"])) |->
     LET i == (k + 1) \div 2
     IN IF k % 2 = 1 THEN <<<<"Police", i>>, d["a"][i]>>
                     ELSE <<<<"Awareness", i>>, d["c"][i]>>]

\* line 44 with cost_z typed for both resources
Budget_Limit_OneCost(n) ==
  Constraint(<<"Budget_Limit", 0>>, SumAll(n, cost_z, cost_z), "<=", budget)

\* line 44
Budget_Limit(n) ==
  Constraint(<<"Budget_Limit", 0>>, SumAll(n, cost_x, cost_z), "<=", budget)

\* line 47 with a digit of X_max lost
Max_Police_Typo(n) ==
  Constraint(<<"Max_Police", 0>>,
             [i \in 1..n |-> <<<<"Police", i>>, 1>>], "<=", 25)

\* lines 47-48
Max_Police(n) ==
  Constraint(<<"Max_Police", 0>>,
             [i \in 1..n |-> <<<<"Police", i>>, 1>>], "<=", X_max)

Max_Awareness(n) ==
  Constraint(<<"Max_Awareness", 0>>,
             [i \in 1..n |-> <<<<"Awareness", i>>, 1>>], "<=", Z_max)

\* line 51: the sets top5 can be
Top5(d) == head(sort_values(d["Weighted_Severity"]), 5)

\* line 52: the rows of df[df['District'] == 'Jaipur']
JaipurRows(d) == {i \in Rows(d) : d["District"][i] = "Jaipur"}

\* line 53 without its filter
top5_including_jaipur(t5, j) == t5

\* line 53
top5_excluding_jaipur(t5, j) == {i \in t5 : i # j}

\* lines 54-56 without line 55
Top5_Max_Resource_Only(S) ==
  [k \in 1..Cardinality(S) |->
     LET i == Ascending(S)[k]
     IN Constraint(<<"Top5_Max_Resource", i>>,
                   <<<<<<"Police", i>>, 1>>, <<<<"Awareness", i>>, 1>>>>,
                   "<=", District_Limit)]

\* lines 54-56
Top5_Resource(S) ==
  Concat([k \in 1..Cardinality(S) |->
     LET i == Ascending(S)[k]
         e == <<<<<<"Police", i>>, 1>>, <<<<"Awareness", i>>, 1>>>>
     IN <<Constraint(<<"Top5_Min_Resource", i>>, e, ">=", 1),
          Constraint(<<"Top5_Max_Resource", i>>, e, "<=", District_Limit)>>])

\* lines 59-62
Jaipur_Rule(j) ==
  <<Constraint(<<"Jaipur_Max_Police", 0>>, <<<<<<"Police", j>>, 1>>>>, "<=", 50),
    Constraint(<<"Jaipur_Max_Awareness", 0>>, <<<<<<"Awareness", j>>, 1>>>>, "<=", 40),
    Constraint(<<"Jaipur_Min_Police", 0>>, <<<<<<"Police", j>>, 1>>>>, ">=", 40),
    Constraint(<<"Jaipur_Min_Awareness", 0>>, <<<<<<"Awareness", j>>, 1>>>>, ">=", 30)>>

\* lines 65-67 with the loop one row short
Per_District_Caps_Short(n) ==
  Concat([i \in 1..(n - 1) |->
     <<Constraint(<<"Max_Police_Per_District", i>>,
                  <<<<<<"Police", i>>, 1>>>>, "<=", 50),
       Constraint(<<"Max_Awareness_Per_District", i>>,
                  <<<<<<"Awareness", i>>, 1>>>>, "<=", 40)>>])

\* lines 65-67
Per_District_Caps(n) ==
  Concat([i \in 1..n |->
     <<Constraint(<<"Max_Police_Per_District", i>>,
                  <<<<<<"Police", i>>, 1>>>>, "<=", 50),
       Constraint(<<"Max_Awareness_Per_District", i>>,
                  <<<<<<"Awareness", i>>, 1>>>>, "<=", 40)>>])

\* lines 44-48, in the order they are added
Capacity(n) == <<Budget_Limit(n), Max_Police(n), Max_Awareness(n)>>

\* lines 44-67, in the order they are added
Constraints(n, t5, j) ==
  Capacity(n)
  \o Top5_Resource(top5_excluding_jaipur(t5, j))
  \o Jaipur_Rule(j)
  \o Per_District_Caps(n)

(***************************************************************************)
(* Lines 40-67.  The objective and the budget and capacity constraints are *)
(* in the model when line 52 looks Jaipur up; index[0] of an empty index   *)
(* raises IndexError.                                                      *)
(***************************************************************************)
Constrain ==
  /\ pc = "constrain"
  /\ LET n == Len(df["Killed"])
     IN \E t5 \in Top5(df) :
          /\ top5' = t5
          /\ IF JaipurRows(df) = {}
               THEN /\ Raise("IndexError")
                    /\ model' = [model EXCEPT !.objective = Objective(df),
                                              !.constraints = Capacity(n)]
                    /\ UNCHANGED jaipur_idx
               ELSE LET j == CHOOSE a \in JaipurRows(df) :
                                \A b \in JaipurRows(df) : a <= b
                    IN /\ jaipur_idx' = j
                       /\ model' = [model EXCEPT
                                       !.objective = Objective(df),
                                       !.constraints = Constraints(n, t5, j)]
                       /\ pc' = "solve"
                       /\ UNCHANGED error
  /\ UNCHANGED <<df, x, z, status, csv>>

(***************************************************************************)
(* The solver's contract.                                                  *)
(***************************************************************************)
\* the values a decision variable is sampled at (police, awareness)
Grid == {<<0, 0>>, <<0, 30>>, <<40, 30>>, <<50, 40>>, <<51, 41>>}

\* v: a function from districts to <<police, awareness>>
Value(v, var) == IF var[1] = "Police" THEN v[var[2]][1] ELSE v[var[2]][2]

RECURSIVE Lhs(_, _)
Lhs(terms, v) ==
  IF terms = <<>> THEN 0
  ELSE Head(terms)[2] * Value(v, Head(terms)[1]) + Lhs(Tail(terms), v)

Satisfies(c, v) ==
  IF c.sense = "<=" THEN Lhs(c.terms, v) <= c.rhs ELSE Lhs(c.terms, v) >= c.rhs

Districts(c) == {c.terms[k][1][2] : k \in DOMAIN c.terms}

\* the grid values that satisfy the constraints on district i alone
Candidates(cons, i) ==
  {p \in Grid :
     \A k \in DOMAIN cons :
        Districts(cons[k]) = {i} => Satisfies(cons[k], (i :> p))}

RECURSIVE Assignments(_, _)
Assignments(cons, n) ==
  IF n = 0 THEN {<<>>}
  ELSE {Append(v, p) : v \in Assignments(cons, n - 1), p \in Candidates(cons, n)}

\* the assignments on the grid that satisfy every constraint
Feasible(cons, n) ==
  {v \in Assignments(cons, n) :
     \A k \in DOMAIN cons :
        Cardinality(Districts(cons[k])) > 1 => Satisfies(cons[k], v)}

\* some variable with a positive objective coefficient has no upper bound
Unbounded(m) ==
  \E k \in DOMAIN m.objective :
     /\ FLess(Frac(0, 1), m.objective[k][2])
     /\ \A q \in DOMAIN m.constraints :
          LET c == m.constraints[q]
          IN ~(c.sense = "<=" /\ \E t \in DOMAIN c.terms :
                                   c.terms[t][1] = m.objective[k][1] /\ c.terms[t][2] > 0)

IllFormed(m) == \E k \in DOMAIN m.objective : IsNaN(m.objective[k][2])

\* what the variables hold when the solve ends without a solution: still
\* None, or the zeros the solution reader starts from
Unsolved(n) == {[i \in 1..n |-> None], [i \in 1..n |-> <<0>>]}

(***************************************************************************)
(* Line 70.  With a NaN objective coefficient the solver either fails to   *)
(* run (PulpSolverError) or ends without a solution.                       *)
(***************************************************************************)
Solve ==
  /\ pc = "solve"
  /\ LET n == Len(x)
         sols == Feasible(model.constraints, n)
     IN IF IllFormed(model)
          THEN \E out \in {"PulpSolverError", "Not Solved", "Infeasible",
                           "Unbounded", "Undefined"} :
                 IF out = "PulpSolverError"
                   THEN Raise(out) /\ UNCHANGED <<x, z, status>>
                   ELSE /\ status' = out
                        /\ \E u \in Unsolved(n) : x' = u /\ z' = u
                        /\ pc' = "collect"
                        /\ UNCHANGED error
          ELSE /\ pc' = "collect"
               /\ UNCHANGED error
               /\ IF sols = {}
                    THEN /\ status' = "Infeasible"
                         /\ \E u \in Unsolved(n) : x' = u /\ z' = u
                    ELSE IF Unbounded(model)
                    THEN /\ status' = "Unbounded"
                         /\ \E u \in Unsolved(n) : x' = u /\ z' = u
                    ELSE /\ status' = "Optimal"
                         /\ \E v \in sols :
                              /\ x' = [i \in 1..n |-> <<v[i][1]>>]
                              /\ z' = [i \in 1..n |-> <<v[i][2]>>]
  /\ UNCHANGED <<df, model, top5, jaipur_idx, csv>>

(***************************************************************************)
(* Lines 73-76: the four result columns.  The status is not looked at.     *)
(***************************************************************************)
Total_Impact_Score(police, awareness, d) ==
  [i \in Rows(d) |->
     FAdd(FMul(ToFloat(police[i]), d["a"][i]),
          FMul(ToFloat(awareness[i]), d["c"][i]))]

\* line 76
Normalized_Impact(total) ==
  [i \in DOMAIN total |-> FDiv(FMul(Frac(100, 1), total[i]), FloatMax(total))]

Collect ==
  /\ pc = "collect"
  /\ LET total == Total_Impact_Score(x, z, df)
     IN df' = df @@ ("Police Allocated" :> x) @@ ("Awareness Campaigns" :> z)
                 @@ ("Total Impact Score" :> total)
                 @@ ("Normalized Impact (%)" :> Normalized_Impact(total))
  /\ pc' = "write"
  /\ UNCHANGED <<error, model, x, z, top5, jaipur_idx, status, csv>>

(***************************************************************************)
(* Lines 79-85: the output columns, sorted by total impact, are written.   *)
(***************************************************************************)
df_sorted(d) ==
  [columns |-> <<"District", "Accidents", "Killed", "Injured",
                 "Police Allocated", "Awareness Campaigns",
                 "Total Impact Score", "Normalized Impact (%)">>,
   rows |-> sort_values(d["Total Impact Score"])]

Write ==
  /\ pc = "write"
  /\ csv' = df_sorted(df)
  /\ pc' = "done"
  /\ UNCHANGED <<error, df, model, x, z, top5, jaipur_idx, status>>

Next ==
  \/ CheckSchema
  \/ Score
  \/ DeclareModel
  \/ Constrain
  \/ Solve
  \/ Collect
  \/ Write

Spec == Init /\ [][Next]_vars

(***************************************************************************)
(* IEEE 754 binary64, the arithmetic of the float64 columns: round to      *)
(* nearest, ties to even, on the values the script computes (NaN, +inf and *)
(* the non-negative finite numbers m * 2^e; counts and allocations are far *)
(* from overflow and from the subnormal range).  m is a natural number of  *)
(* any size: a sequence of limbs in base Base, least significant first,    *)
(* without leading zero limbs.  A binary64 value is [nan, inf, m, e] with  *)
(* m odd (or zero, with e = 0), so equal numbers are equal records.        *)
(***************************************************************************)
Base == 16384
LimbBits == 14
Precision == 53

RECURSIVE BTrim(_)
BTrim(a) ==
  IF a = <<>> THEN <<>>
  ELSE IF a[Len(a)] = 0 THEN BTrim(SubSeq(a, 1, Len(a) - 1)) ELSE a

RECURSIVE BFromInt(_)
BFromInt(n) == IF n = 0 THEN <<>> ELSE <<n % Base>> \o BFromInt(n \div Base)

Limb0(a) == IF a = <<>> THEN 0 ELSE Head(a)
Rest(a) == IF a = <<>> THEN <<>> ELSE Tail(a)

RECURSIVE BAddC(_, _, _)
BAddC(a, b, c) ==
  IF a = <<>> /\ b = <<>> THEN BFromInt(c)
  ELSE <<(Limb0(a) + Limb0(b) + c) % Base>>
         \o BAddC(Rest(a), Rest(b), (Limb0(a) + Limb0(b) + c) \div Base)

BAdd(a, b) == BAddC(a, b, 0)

\* a - b - c for a >= b + c
RECURSIVE BSubC(_, _, _)
BSubC(a, b, c) ==
  IF a = <<>> THEN <<>>
  ELSE IF Head(a) - Limb0(b) - c < 0
    THEN <<Head(a) - Limb0(b) - c + Base>> \o BSubC(Tail(a), Rest(b), 1)
    ELSE <<Head(a) - Limb0(b) - c>> \o BSubC(Tail(a), Rest(b), 0)

BSub(a, b) == BTrim(BSubC(a, b, 0))

\* -1, 0, 1 as a < b, a = b, a > b
RECURSIVE BCmp(_, _)
BCmp(a, b) ==
  IF Len(a) # Len(b) THEN (IF Len(a) < Len(b) THEN -1 ELSE 1)
  ELSE IF a = <<>> THEN 0
  ELSE IF a[Len(a)] # b[Len(b)] THEN (IF a[Len(a)] < b[Len(b)] THEN -1 ELSE 1)
  ELSE BCmp(BTrim(SubSeq(a, 1, Len(a) - 1)), BTrim(SubSeq(b, 1, Len(b) - 1)))

\* a * k + c for a limb k
RECURSIVE BMulLimb(_, _, _)
BMulLimb(a, k, c) ==
  IF a = <<>> THEN BFromInt(c)
  ELSE <<(Head(a) * k + c) % Base>> \o BMulLimb(Tail(a), k, (Head(a) * k + c) \div Base)

RECURSIVE BMul(_, _)
BMul(a, b) ==
  IF a = <<>> \/ b = <<>> THEN <<>>
  ELSE BAdd(BMulLimb(a, Head(b), 0),
            IF Tail(b) = <<>> THEN <<>> ELSE <<0>> \o BMul(a, Tail(b)))

RECURSIVE Pow2(_)
Pow2(k) == IF k = 0 THEN 1 ELSE 2 * Pow2(k - 1)

\* a * 2^k
BShl(a, k) ==
  IF a = <<>> THEN <<>>
  ELSE [i \in 1..(k \div LimbBits) |-> 0] \o BMulLimb(a, Pow2(k % LimbBits), 0)

RECURSIVE IntBits(_)
IntBits(n) == IF n = 0 THEN 0 ELSE 1 + IntBits(n \div 2)

BBits(a) == IF a = <<>> THEN 0 ELSE LimbBits * (Len(a) - 1) + IntBits(a[Len(a)])

\* the largest digit q >= acc with q * b <= r, q - acc < 2^(bit + 1)
RECURSIVE BDigit(_, _, _, _)
BDigit(r, b, bit, acc) ==
  IF bit < 0 THEN acc
  ELSE IF BCmp(BMulLimb(b, acc + Pow2(bit), 0), r) <= 0
    THEN BDigit(r, b, bit - 1, acc + Pow2(bit))
    ELSE BDigit(r, b, bit - 1, acc)

\* long division of a by b, most significant limb first: from the quotient
\* q and remainder r of the limbs of a above the i-th, those of the limbs
\* from the i-th up
BDivLimb(h, a, b) ==
  LET r == BTrim(<<a[h.i]>> \o h.r)
      qd == BDigit(r, b, LimbBits - 1, 0)
  IN [q |-> BTrim(<<qd>> \o h.q),
      r |-> IF qd = 0 THEN r ELSE BSub(r, BMulLimb(b, qd, 0)),
      i |-> h.i - 1]

RECURSIVE BDivFrom(_, _, _)
BDivFrom(h, a, b) == IF h.i = 0 THEN h ELSE BDivFrom(BDivLimb(h, a, b), a, b)

\* quotient and remainder of a by b > 0
BDivMod(a, b) == BDivFrom([q |-> <<>>, r |-> <<>>, i |-> Len(a)], a, b)

BOdd(a) == a # <<>> /\ a[1] % 2 = 1

\* floor(a / 2^k)
BShr(a, k) ==
  LET w == k \div LimbBits
      p == Pow2(k % LimbBits)
      h == IF w >= Len(a) THEN <<>> ELSE SubSeq(a, w + 1, Len(a))
  IN BTrim([i \in 1..Len(h) |->
              h[i] \div p + (IF i < Len(h) THEN (h[i + 1] % p) * (Base \div p) ELSE 0)])

RECURSIVE IntTrailingZeros(_)
IntTrailingZeros(n) == IF n % 2 = 1 THEN 0 ELSE 1 + IntTrailingZeros(n \div 2)

\* the number of trailing zero bits of a > 0
RECURSIVE BTrailingZeros(_)
BTrailingZeros(a) ==
  IF Head(a) = 0 THEN LimbBits + BTrailingZeros(Tail(a))
  ELSE IntTrailingZeros(Head(a))

NaN64 == [nan |-> TRUE, inf |-> FALSE, m |-> <<>>, e |-> 0]
Inf64 == [nan |-> FALSE, inf |-> TRUE, m |-> <<>>, e |-> 0]
Zero64 == [nan |-> FALSE, inf |-> FALSE, m |-> <<>>, e |-> 0]

\* the number m * 2^e with m odd (or zero)
Canonical(m, e) ==
  IF m = <<>> THEN Zero64
  ELSE LET t == BTrailingZeros(m)
       IN [nan |-> FALSE, inf |-> FALSE, m |-> BShr(m, t), e |-> e + t]

\* m * 2^e rounded to Precision bits, ties to even
Round64(m, e) ==
  IF BBits(m) <= Precision THEN Canonical(m, e)
  ELSE LET k == BBits(m) - Precision
           q == BShr(m, k)
           r == BSub(m, BShl(q, k))
           c == BCmp(r, BShl(<<1>>, k - 1))
       IN Canonical(IF c > 0 \/ (c = 0 /\ BOdd(q)) THEN BAdd(q, <<1>>) ELSE q,
                    e + k)

FromInt64(n) == Canonical(BFromInt(n), 0)

IsZero64(a) == ~a.nan /\ ~a.inf /\ a.m = <<>>

Mul64(a, b) ==
  IF a.nan \/ b.nan THEN NaN64
  ELSE IF a.inf \/ b.inf
    THEN (IF IsZero64(a) \/ IsZero64(b) THEN NaN64 ELSE Inf64)
  ELSE Round64(BMul(a.m, b.m), a.e + b.e)

Add64(a, b) ==
  IF a.nan \/ b.nan THEN NaN64
  ELSE IF a.inf \/ b.inf THEN Inf64
  ELSE IF IsZero64(a) THEN b
  ELSE IF IsZero64(b) THEN a
  ELSE LET e == IF a.e < b.e THEN a.e ELSE b.e
       IN Round64(BAdd(BShl(a.m, a.e - e), BShl(b.m, b.e - e)), e)

\* m / n * 2^e for n > 0, from the quotient of m * 2^k by n and a sticky bit
Quotient64(m, n, k, e) ==
  LET d == BDivMod(BShl(m, k), n)
      sticky == IF d.r = <<>> THEN <<>> ELSE <<1>>
  IN Round64(BAdd(BAdd(d.q, d.q), sticky), e - k - 1)

Div64(x1, x2) ==
  IF x1.nan \/ x2.nan THEN NaN64
  ELSE IF x1.inf THEN (IF x2.inf THEN NaN64 ELSE Inf64)
  ELSE IF x2.inf THEN Zero64
  ELSE IF IsZero64(x2) THEN (IF IsZero64(x1) THEN NaN64 ELSE Inf64)
  ELSE IF IsZero64(x1) THEN Zero64
  ELSE Quotient64(x1.m, x2.m, Precision + 2 + BBits(x2.m), x1.e - x2.e)

\* a < b; every comparison with NaN is false
Less64(a, b) ==
  /\ ~a.nan /\ ~b.nan /\ ~a.inf
  /\ \/ b.inf
     \/ IF IsZero64(b) THEN FALSE
        ELSE IF IsZero64(a) THEN TRUE
        ELSE LET e == IF a.e < b.e THEN a.e ELSE b.e
             IN BCmp(BShl(a.m, a.e - e), BShl(b.m, b.e - e)) < 0

\* a decimal literal n/d of the script (0.5, 0.3, 0.2): the nearest binary64
Literal64(n, d) == Div64(FromInt64(n), FromInt64(d))

(***************************************************************************)
(* The float columns in binary64.                                          *)
(***************************************************************************)
\* lines 14-16
Weighted_Severity64(d) ==
  LET K == FromInt64(IntMax(d["Killed"]))
      J == FromInt64(IntMax(d["Injured"]))
      A == FromInt64(IntMax(d["Accidents"]))
  IN [i \in Rows(d) |->
        Add64(Add64(Mul64(Literal64(5, 10), Div64(FromInt64(d["Killed"][i]), K)),
                    Mul64(Literal64(3, 10), Div64(FromInt64(d["Injured"][i]), J))),
              Mul64(Literal64(2, 10), Div64(FromInt64(d["Accidents"][i]), A)))]

\* a column entry as a float: None (no value) becomes NaN in arithmetic
ToFloat64(v) == IF v = None THEN NaN64 ELSE FromInt64(v[1])

\* line 75
Total_Impact_Score64(police, awareness, d) ==
  [i \in Rows(d) |->
     Add64(Mul64(ToFloat64(police[i]), d["a"][i]),
           Mul64(ToFloat64(awareness[i]), d["c"][i]))]

\* Series.max(): the largest non-NaN entry, NaN when there is none
FloatMax64(col) ==
  LET S == {i \in DOMAIN col : ~IsNaN(col[i])}
  IN IF S = {} THEN NaN64
     ELSE col[CHOOSE i \in S : \A j \in S : ~Less64(col[i], col[j])]

\* line 76: 100 * column is computed first, then divided by the maximum
Normalized_Impact64(total) ==
  [i \in DOMAIN total |->
     Div64(Mul64(FromInt64(100), total[i]), FloatMax64(total))]

\* sort_values on a binary64 column
RECURSIVE DescendingClasses64(_, _)
DescendingClasses64(col, S) ==
  IF S = {} THEN <<>>
  ELSE <<{i \in S : \A j \in S : ~Less64(col[i], col[j])}>>
       \o DescendingClasses64(col, {i \in S : \E j \in S : Less64(col[i], col[j])})

sort_values64(col) ==
  DescendingClasses64(col, {i \in DOMAIN col : ~IsNaN(col[i])})
  \o IndexOrder({i \in DOMAIN col : IsNaN(col[i])}, Len(col))

\* lines 79-82
df_sorted64(d) ==
  [columns |-> <<"District", "Accidents", "Killed", "Injured",
                 "Police Allocated", "Awareness Campaigns",
                 "Total Impact Score", "Normalized Impact (%)">>,
   rows |-> sort_values64(d["Total Impact Score"])]

(***************************************************************************)
(* The float columns of a solved run, in binary64.  The input is a table   *)
(* of two districts, Jaipur and one other, with no count column zero       *)
(* throughout, and the values the solve of line 70 left in the variables   *)
(* for that table: with two rows top5 is both rows, and every objective    *)
(* coefficient is a severity >= 0 shared by the police and the awareness   *)
(* variable of a district, so an optimal solution gives every district the *)
(* most units its constraints allow (the budget and the two state-wide     *)
(* capacities do not bind on two rows).  The steps are the lines that      *)
(* compute floats: 14-20, 73-76 and 79-85.                                 *)
(***************************************************************************)
\* the largest count of a cell of the table
MaxCount == 5

FloatTables ==
  {("District" :> <<"Jaipur", DistrictNames[2]>>)
     @@ [c \in {"Killed", "Injured", "Accidents"} |->
           IF c = "Killed" THEN <<k[1], k[2]>>
           ELSE IF c = "Injured" THEN <<j[1], j[2]>>
           ELSE <<a[1], a[2]>>] :
     k \in ((0..1) \X (0..1)) \ {<<0, 0>>},
     j \in ((0..1) \X (0..1)) \ {<<0, 0>>},
     a \in ((0..MaxCount) \X (0..MaxCount)) \ {<<0, 0>>}}

\* police + awareness of district i
Units(v, i) == v[i][1] + v[i][2]

\* the feasible assignments that give every district the most units
Optimal(cons, n) ==
  {v \in Feasible(cons, n) :
     \A w \in Feasible(cons, n) : \A i \in 1..n : Units(w, i) <= Units(v, i)}

Init64 ==
  /\ pc = "score64"
  /\ error = ""
  /\ df \in FloatTables
  /\ jaipur_idx = 1
  /\ top5 = Rows(df)
  /\ model = [name |-> "Rajasthan_Accident_Resource_Optimization",
              objective |-> <<>>,
              constraints |-> Constraints(Len(df["Killed"]), top5, jaipur_idx)]
  /\ status = "Optimal"
  /\ \E v \in Optimal(model.constraints, Len(df["Killed"])) :
        /\ x = [i \in Rows(df) |-> <<v[i][1]>>]
        /\ z = [i \in Rows(df) |-> <<v[i][2]>>]
  /\ csv = [columns |-> <<>>, rows |-> <<>>]

\* lines 14-20
Score64 ==
  /\ pc = "score64"
  /\ LET ws == Weighted_Severity64(df)
     IN df' = df @@ ("Weighted_Severity" :> ws) @@ ("a" :> ws) @@ ("c" :> ws)
  /\ pc' = "collect64"
  /\ UNCHANGED <<error, model, x, z, top5, jaipur_idx, status, csv>>

\* lines 73-76
Collect64 ==
  /\ pc = "collect64"
  /\ LET total == Total_Impact_Score64(x, z, df)
     IN df' = df @@ ("Police Allocated" :> x) @@ ("Awareness Campaigns" :> z)
                 @@ ("Total Impact Score" :> total)
                 @@ ("Normalized Impact (%)" :> Normalized_Impact64(total))
  /\ pc' = "write64"
  /\ UNCHANGED <<error, model, x, z, top5, jaipur_idx, status, csv>>

\* lines 79-85
Write64 ==
  /\ pc = "write64"
  /\ csv' = df_sorted64(df)
  /\ pc' = "done64"
  /\ UNCHANGED <<error, df, model, x, z, top5, jaipur_idx, status>>

Next64 ==
  \/ Score64
  \/ Collect64
  \/ Write64

SpecFloat == Init64 /\ [][Next64]_vars

(***************************************************************************)
(* The policy parameters, as the properties below name them.               *)
(***************************************************************************)
PoliceCap == 50
AwarenessCap == 40
PrioritySize == 5
PriorityMin == 1
PriorityCap == 30
ExemptPoliceMin == 40
ExemptPoliceMax == 50
ExemptAwarenessMin == 30
ExemptAwarenessMax == 40

\* the result columns exist
Collected == pc \in {"write", "done"}

\* a solved allocation whose values are in the result columns
Solved == Collected /\ status = "Optimal"

Police(i) == df["Police Allocated"][i][1]
Awareness(i) == df["Awareness Campaigns"][i][1]

RECURSIVE Total(_, _)
Total(col, n) == IF n = 0 THEN 0 ELSE col[n][1] + Total(col, n - 1)

Spend ==
  cost_x * Total(df["Police Allocated"], Len(df["Killed"]))
  + cost_z * Total(df["Awareness Campaigns"], Len(df["Killed"]))

\* a count column whose maximum, the normalization denominator, is zero
ZeroMaximum ==
  \E c \in {"Killed", "Injured", "Accidents"} : IntMax(df[c]) = 0

Exempt == {i \in Rows(df) : "District" \in DOMAIN df /\ df["District"][i] = "Jaipur"}

\* S holds PrioritySize rows none of which is less severe than a row left out
IsTopK(S) ==
  /\ S \subseteq Rows(df)
  /\ Cardinality(S) = IF Len(df["Killed"]) < PrioritySize
                        THEN Len(df["Killed"]) ELSE PrioritySize
  /\ \A i \in S : \A j \in Rows(df) \ S :
        ~FLess(df["Weighted_Severity"][i], df["Weighted_Severity"][j])

\* the top PrioritySize rows of a stable sort by severity, descending:
\* among equal severities the earlier row comes first
StableTopK ==
  CHOOSE S \in SUBSET Rows(df) :
    /\ IsTopK(S)
    /\ \A i \in S : \A j \in Rows(df) \ S :
          FLess(df["Weighted_Severity"][j], df["Weighted_Severity"][i]) \/ i < j

(***************************************************************************)
(* C1.  The status is checked before any variable value is read: once the  *)
(* solve has ended with a status other than Optimal, the pipeline fails    *)
(* with UnsolvableAllocationError and the allocation columns are never     *)
(* computed from the variable values.                                      *)
(***************************************************************************)
C1_StatusCheckedBeforeValuesRead ==
  status \notin {"", "Optimal"} =>
    /\ "Police Allocated" \notin DOMAIN df
    /\ "Awareness Campaigns" \notin DOMAIN df
    /\ pc \in {"collect", "failed"}
    /\ pc = "failed" => error = "UnsolvableAllocationError"

(***************************************************************************)
(* C2.  The output table is written only by a run with no fatal condition: *)
(* the district column is there, no normalization maximum is zero, the     *)
(* exempt district is in the table and the solver status is Optimal.       *)
(***************************************************************************)
C2_OutputOnlyWithoutFatalError ==
  csv.columns # <<>> =>
    /\ "District" \in DOMAIN df
    /\ ~ZeroMaximum
    /\ Exempt # {}
    /\ status = "Optimal"

(***************************************************************************)
(* C3.  For a solved allocation the values in the result satisfy the       *)
(* budget: cost_x * sum(police) + cost_z * sum(awareness) <= budget.       *)
(***************************************************************************)
C3_BudgetHolds == Solved => Spend <= budget

C3_Witness == Solved /\ Spend > budget - 200 /\ Spend <= budget

(***************************************************************************)
(* C4.  For a solved allocation the priority set is a top-PrioritySize set *)
(* by severity with the exempt district removed, and every district in it  *)
(* has PriorityMin <= police + awareness <= PriorityCap.                   *)
(***************************************************************************)
C4_PriorityBounds ==
  Solved =>
    /\ IsTopK(top5)
    /\ \A i \in top5 \ Exempt :
          /\ PriorityMin <= Police(i) + Awareness(i)
          /\ Police(i) + Awareness(i) <= PriorityCap

C4_Witness ==
  /\ Solved
  /\ Cardinality(top5 \ Exempt) = PrioritySize
  /\ \E i \in top5 : Police(i) + Awareness(i) = PriorityCap

(***************************************************************************)
(* C5.  For a solved allocation the exempt district is within its four     *)
(* bounds, in or out of the top-PrioritySize set, and no priority-set      *)
(* (combined sum) constraint of the model is on the exempt district.       *)
(***************************************************************************)
C5_ExemptBounds ==
  /\ \A k \in DOMAIN model.constraints :
        model.constraints[k].name[1] \in {"Top5_Min_Resource", "Top5_Max_Resource"}
          => model.constraints[k].name[2] \notin Exempt
  /\ Solved =>
       \A j \in Exempt :
          /\ ExemptPoliceMin <= Police(j) /\ Police(j) <= ExemptPoliceMax
          /\ ExemptAwarenessMin <= Awareness(j) /\ Awareness(j) <= ExemptAwarenessMax

C5_Witness ==
  /\ Solved
  /\ \E j \in Exempt : j \in top5 /\ Police(j) + Awareness(j) > PriorityCap

(***************************************************************************)
(* C6.  For a solved allocation every district, the exempt and the         *)
(* priority-set districts included, has police <= PoliceCap and            *)
(* awareness <= AwarenessCap.                                              *)
(***************************************************************************)
C6_PerDistrictCaps ==
  Solved =>
    \A i \in Rows(df) : Police(i) <= PoliceCap /\ Awareness(i) <= AwarenessCap

C6_Witness ==
  /\ Solved
  /\ \E i \in Rows(df) \ (Exempt \cup top5) :
        Police(i) = PoliceCap /\ Awareness(i) = AwarenessCap

(***************************************************************************)
(* C7.  With a count column that is zero throughout, the scorer fails with *)
(* DegenerateInputError before any model is built: no problem, no decision *)
(* variable, no solve.                                                     *)
(***************************************************************************)
C7_ZeroColumnFailsBeforeModel ==
  ("District" \in DOMAIN df /\ ZeroMaximum) =>
    /\ pc \in {"check", "score", "failed"}
    /\ pc = "failed" => error = "DegenerateInputError"
    /\ model.name = "" /\ x = <<>> /\ z = <<>> /\ status = ""

(***************************************************************************)
(* C8.  For a solved allocation that reached the output, whichever row is  *)
(* first in the table sorted by total impact has a normalized impact of    *)
(* exactly 100, in the binary64 arithmetic the columns are computed in.    *)
(***************************************************************************)
C8_TopRankedIsExactly100 ==
  (pc = "done64" /\ status = "Optimal") =>
    /\ csv.rows # <<>>
    /\ \A i \in Head(csv.rows) :
          df["Normalized Impact (%)"][i] = FromInt64(100)

(***************************************************************************)
(* C9.  The priority set is the one a stable sort gives: among districts   *)
(* of equal severity the earlier rows are taken.                           *)
(***************************************************************************)
C9_StableTieBreak ==
  pc \in {"solve", "collect", "write", "done"} => top5 = StableTopK

(***************************************************************************)
(* C10.  With the parameters of the script, for every table with the       *)
(* exempt district the constraints can be met: the minimum requirements    *)
(* (exempt minimums, PriorityMin awareness for each priority district,     *)
(* nothing elsewhere) satisfy every constraint of the model handed to the  *)
(* solver and its objective is bounded; and on a table with defined        *)
(* severities the solve ends with status Optimal.                          *)
(***************************************************************************)
MinimumRequirements ==
  [i \in Rows(df) |->
     IF i = jaipur_idx THEN <<ExemptPoliceMin, ExemptAwarenessMin>>
     ELSE IF i \in top5 THEN <<0, PriorityMin>>
     ELSE <<0, 0>>]

====
